---- MODULE Spec2Model ----
(***************************************************************************)
(* A model of the PCX decoder of pcx_reader.py: the RLE codec, the header  *)
(* parser, the trailing-palette locator and the read_pcx facade, and of the *)
(* open and close commands of the viewer (controller.py).                  *)
(* Byte strings are sequences of integers 0..255.  Python indices are      *)
(* 0-based: data[i] of the source is data[i + 1] here.                     *)
(***************************************************************************)
EXTENDS Integers, Sequences, FiniteSets, TLC

VARIABLES
    data, i, out, rle_pc,       \* pcx_rle_decode: its argument, locals and position
    file,                       \* file[p]: the file the call p is given (path and content)
    faults,                     \* whether the file system may fail an open, a read or a stat
    Image,                      \* the module global Image: TRUE for PIL's module, FALSE for None
    short_left,                 \* how many more reads may return fewer bytes than there are
    handles,                    \* handles[p]: the file objects the call p holds open
    hdr_pc, header_data,        \* read_pcx_header: position and the dict it builds, per call
    pal_pc, tail, pal_pos,      \* read_pcx_256_palette: position, tail, offset of its handle
    palette,                    \* read_pcx_256_palette: the value it returns
    rd_pc, result,              \* read_pcx: position and the result dict
    image_data_size, remaining, \* read_pcx: locals
    chunks, rd_pos,             \* read_pcx: the chunks read, the offset of its handle
    img_state,                  \* ImageApp.img_state: the fields open_image and close_image set
    last_pick                   \* the path of the last open_image that chose one, and its outcome

rleVars == <<data, i, out, rle_pc>>
viewVars == <<img_state, last_pick>>
\* what no step of pcx_reader.py changes
envVars == <<file, faults, Image, viewVars>>
ioVars == <<envVars, short_left, handles>>
hdrVars == <<hdr_pc, header_data>>
palVars == <<pal_pc, tail, pal_pos, palette>>
rdVars == <<rd_pc, result, image_data_size, remaining, chunks, rd_pos>>
callVars == <<ioVars, hdrVars, palVars, rdVars>>
vars == <<rleVars, ioVars, hdrVars, palVars, rdVars>>

(***************************************************************************)
(* Bounds of the model.                                                    *)
(***************************************************************************)
\* longest input handed to pcx_rle_decode
MaxLen == 4

\* the bytes the RLE inputs are drawn from: literals (5, 0xBF) and run
\* markers (0xC0 with count 0, 0xC2, 0xC3, 0xFF with count 63)
RleBytes == {5, 191, 192, 194, 195, 255}

RECURSIVE SeqsUpTo(_, _)
SeqsUpTo(S, n) ==
    IF n = 0 THEN {<<>>}
    ELSE LET shorter == SeqsUpTo(S, n - 1)
         IN  shorter \cup {Append(s, x) : s \in {t \in shorter : Len(t) = n - 1}, x \in S}

(***************************************************************************)
(* Integer helpers: Python's & on non-negative integers.                   *)
(***************************************************************************)
RECURSIVE BitAnd(_, _)
BitAnd(x, y) ==
    IF x = 0 \/ y = 0 THEN 0
    ELSE (x % 2) * (y % 2) + 2 * BitAnd(x \div 2, y \div 2)

(***************************************************************************)
(* pcx_rle_decode                                                          *)
(***************************************************************************)
RUN_MARKER == 192
COUNT_MASK == 63

\* if b >= 0xC0
IsMarker(b) == b >= RUN_MARKER

RunCountWholeByte(b) == b
RunCountPlusOne(b) == BitAnd(b, COUNT_MASK) + 1
RunCountWide(b) == BitAnd(b, 127)
\* count = b & 0x3F
RunCount(b) == BitAnd(b, COUNT_MASK)

NeverAtEnd(k, L) == FALSE
\* if i >= L: break     (the marker is the last byte)
AtEnd(k, L) == k >= L

\* out.extend([val] * count)
RunOut(o, val, count) == o \o [k \in 1..count |-> val]

LiteralOutNext(o, b) == Append(o, (b + 1) % 256)
\* out.append(b)
LiteralOut(o, b) == Append(o, b)

\* One iteration of `while i < L` from the locals (k, o): the locals after
\* it and where control goes ("loop", "done" on break, "raised" on an
\* IndexError of data[i]).
RleIter(d, k, o) ==
    LET L == Len(d)
        b == d[k + 1]
    IN  IF IsMarker(b)
        THEN IF AtEnd(k + 1, L)
             THEN [i |-> k + 1, out |-> o, pc |-> "done"]
             ELSE IF k + 1 >= L
                  THEN [i |-> k + 1, out |-> o, pc |-> "raised"]
                  ELSE [i |-> k + 2,
                        out |-> RunOut(o, d[k + 2], RunCount(b)),
                        pc |-> "loop"]
        ELSE [i |-> k + 1, out |-> LiteralOut(o, b), pc |-> "loop"]

\* The whole function: the loop run from i = 0, out = bytearray().
RECURSIVE RleRun(_, _, _)
RleRun(d, k, o) ==
    IF k < Len(d)
    THEN LET r == RleIter(d, k, o)
         IN  IF r.pc = "loop" THEN RleRun(d, r.i, r.out) ELSE r.out
    ELSE o

pcx_rle_decode(d) == RleRun(d, 0, <<>>)

\* no viewer is running
ViewIdle ==
    /\ img_state = <<>>
    /\ last_pick = <<>>

\* no file-reading call is in progress
NoCalls ==
    /\ file = <<>>
    /\ faults = FALSE
    /\ Image = FALSE
    /\ short_left = 0
    /\ handles = <<>>
    /\ hdr_pc = <<>>
    /\ header_data = <<>>
    /\ pal_pc = <<>>
    /\ tail = <<>>
    /\ pal_pos = <<>>
    /\ palette = <<>>
    /\ rd_pc = <<>>
    /\ result = <<>>
    /\ image_data_size = <<>>
    /\ remaining = <<>>
    /\ chunks = <<>>
    /\ rd_pos = <<>>

RleInit ==
    /\ data \in SeqsUpTo(RleBytes, MaxLen)
    /\ i = 0
    /\ out = <<>>
    /\ rle_pc = "loop"
    /\ NoCalls
    /\ ViewIdle

\* while i < L: one iteration
RleLoop ==
    /\ rle_pc = "loop"
    /\ i < Len(data)
    /\ LET r == RleIter(data, i, out)
       IN  /\ i' = r.i
           /\ out' = r.out
           /\ rle_pc' = r.pc
    /\ UNCHANGED <<data, callVars>>

\* the loop condition fails: return bytes(out)
RleReturn ==
    /\ rle_pc = "loop"
    /\ i >= Len(data)
    /\ rle_pc' = "done"
    /\ UNCHANGED <<data, i, out, callVars>>

RleNext == RleLoop \/ RleReturn

SpecRle == RleInit /\ [][RleNext]_vars

\* the statements of pcx_rle_decode are run one after the other until it
\* returns
SpecRleFair == SpecRle /\ WF_vars(RleNext)

(***************************************************************************)
(* Files.  A file is described by its segments: the header bytes, the      *)
(* leading bytes of the image data, a run of filler bytes, and a trailing  *)
(* block of a first byte (the palette signature when it is 12) and palette *)
(* bytes; sig = -1 means the file has no trailing block.                   *)
(***************************************************************************)
Min(a, b) == IF a <= b THEN a ELSE b

Rep(n, x) == [k \in 1..n |-> x]

\* the k-th filler byte (a literal for the RLE decoder)
PadByte(k) == k % 191

\* the k-th byte of palette pattern id
PalByte(id, k) == (id * k + 7 * id) % 256

TailSegment(f) ==
    IF f.sig < 0 THEN <<>>
    ELSE <<f.sig>> \o [k \in 1..f.palLen |-> PalByte(f.palId, k)]

FileBytes(f) == f.hdr \o f.img \o [k \in 1..f.pad |-> PadByte(k)] \o TailSegment(f)

MkFile(hdr, img, pad, sig, palLen, palId) ==
    [hdr |-> hdr, img |-> img, pad |-> pad, sig |-> sig, palLen |-> palLen, palId |-> palId]

\* os.path.getsize(file_path): the length of FileBytes(f)
getsize(f) ==
    Len(f.hdr) + Len(f.img) + f.pad + (IF f.sig < 0 THEN 0 ELSE 1 + f.palLen)

\* the bytes a read of n bytes at offset pos returns
ReadAt(f, pos, n) == SubSeq(FileBytes(f), pos + 1, Min(pos + n, getsize(f)))

WithExitLeaks(open_files) == open_files
\* leaving a `with open(file_path, 'rb') as f:` block, by its end, a return
\* or an exception, closes f
WithExit(open_files) == open_files - 1

\* the lengths a read may return fewer than the full one
ShortLens == {1, 700}

\* f.read(n) with avail bytes left before the end of the file: the lengths
\* it may return.  At the end of the file it returns b''.
ReadLens(n, avail) ==
    LET full == Min(n, avail)
    IN  {full} \cup (IF short_left > 0 THEN {k \in ShortLens : k < full} ELSE {})

\* what a read of length k of a request whose full length is full costs
ShortAfter(k, full) == IF k < full THEN short_left - 1 ELSE short_left

(***************************************************************************)
(* Optional values: None is the empty tuple, a value v is <<v>>.           *)
(***************************************************************************)
None == <<>>

Some(v) == <<v>>

(***************************************************************************)
(* struct.unpack with a little-endian format of B (1 byte) and H (2 byte)  *)
(* items, given as the sequence of the items' sizes.                       *)
(***************************************************************************)
\* the size of the first j items: one byte each and one more for each H
SumTo(fmt, j) == j + Cardinality({k \in 1..j : fmt[k] = 2})

\* struct.calcsize
CalcSize(fmt) == SumTo(fmt, Len(fmt))

\* the item j (from 1) of the unpacked tuple
UnpackItem(fmt, bytes, j) ==
    LET off == SumTo(fmt, j - 1)
    IN  IF fmt[j] = 1 THEN bytes[off + 1]
        ELSE bytes[off + 1] + 256 * bytes[off + 2]

Unpack(fmt, bytes) == [j \in 1..Len(fmt) |-> UnpackItem(fmt, bytes, j)]

(***************************************************************************)
(* read_pcx_header                                                         *)
(***************************************************************************)
PCX_HEADER_SIZE == 128

HeaderFmtShortFiller ==
    Rep(4, 1) \o Rep(4, 2) \o Rep(2, 2) \o Rep(48, 1) \o <<1, 1, 2, 2>> \o Rep(2, 2) \o Rep(53, 1)
HeaderFmtNoReserved ==
    Rep(4, 1) \o Rep(4, 2) \o Rep(2, 2) \o Rep(48, 1) \o <<1, 2, 2>> \o Rep(2, 2) \o Rep(55, 1)
\* '<BBBB 4H 2H 48B B B H H 2H 54B'
HeaderFmt ==
    Rep(4, 1) \o Rep(4, 2) \o Rep(2, 2) \o Rep(48, 1) \o <<1, 1, 2, 2>> \o Rep(2, 2) \o Rep(54, 1)

\* header_data = {"File Path": file_path, "Error": ...}
ErrorHeader(msg) == ("File Path" :> "file_path") @@ ("Error" :> msg)

TooShortBelowOne(header_bytes) == Len(header_bytes) < 1
\* if len(header_bytes) < PCX_HEADER_SIZE
HeaderTooShort(header_bytes) == Len(header_bytes) < PCX_HEADER_SIZE

\* is_indexed = num_color_planes == 1 and bits_per_pixel == 8
IsIndexed(num_color_planes, bits_per_pixel) ==
    num_color_planes = 1 /\ bits_per_pixel = 8

PaletteInfoTrueColorFirst(num_color_planes, bits_per_pixel) ==
    IF bits_per_pixel = 8 /\ num_color_planes >= 1 THEN "24-bit True Color"
    ELSE IF bits_per_pixel <= 4 /\ num_color_planes = 1 THEN "16-Color (Internal)"
    ELSE "Custom/Unknown"
\* the if / elif chain that determines the color format type
PaletteInfo(num_color_planes, bits_per_pixel) ==
    IF IsIndexed(num_color_planes, bits_per_pixel) THEN "256-Color (External)"
    ELSE IF bits_per_pixel <= 4 /\ num_color_planes = 1 THEN "16-Color (Internal)"
    ELSE IF bits_per_pixel = 8 /\ num_color_planes = 3 THEN "24-bit True Color"
    ELSE "Custom/Unknown"

\* The header dict built from 128 bytes.  unpacked[n] of the source is
\* unpacked[n + 1] here.  The two formatted strings are represented by the
\* numbers they print.
ParseHeader(header_bytes) ==
    LET unpacked == Unpack(HeaderFmt, header_bytes)
        manufacturer == unpacked[1]
        version == unpacked[2]
        encoding == unpacked[3]
        bits_per_pixel == unpacked[4]
        xmin == unpacked[5]
        ymin == unpacked[6]
        xmax == unpacked[7]
        ymax == unpacked[8]
        h_dpi == unpacked[9]
        v_dpi == unpacked[10]
        num_color_planes == unpacked[60]
        bytes_per_line == unpacked[61]
        palette_type == unpacked[62]
        h_screen_size == unpacked[63]
        v_screen_size == unpacked[64]
        width == xmax - xmin + 1
        height == ymax - ymin + 1
    IN  ("Manufacturer" :> manufacturer) @@ ("Version" :> version)
        @@ ("Encoding" :> encoding) @@ ("Bits/Pixel" :> bits_per_pixel)
        @@ ("Dimensions" :> <<width, height>>) @@ ("H/V DPI" :> <<h_dpi, v_dpi>>)
        @@ ("Planes" :> num_color_planes) @@ ("Bytes/Line" :> bytes_per_line)
        @@ ("Palette Type" :> palette_type)
        @@ ("Palette Info" :> PaletteInfo(num_color_planes, bits_per_pixel))
        @@ ("H Screen Size" :> h_screen_size) @@ ("V Screen Size" :> v_screen_size)
        @@ ("Is Indexed" :> IsIndexed(num_color_planes, bits_per_pixel))
        @@ ("Width" :> width) @@ ("Height" :> height)

\* The body of the with block, from the bytes the read returned: the early
\* return of a short read, struct.error of a wrong length, or the header.
HeaderFromBytes(header_bytes) ==
    IF HeaderTooShort(header_bytes)
    THEN ErrorHeader("File too short to read full 128-byte header.")
    ELSE IF Len(header_bytes) # CalcSize(HeaderFmt)
         THEN ErrorHeader("Failed to unpack header structure")
         ELSE ParseHeader(header_bytes)

\* header_data = {...}; open(file_path, 'rb') succeeds
HdrOpen(p) ==
    /\ hdr_pc[p] = "open"
    /\ header_data' = [header_data EXCEPT ![p] = ErrorHeader("Unknown error")]
    /\ handles' = [handles EXCEPT ![p] = @ + 1]
    /\ hdr_pc' = [hdr_pc EXCEPT ![p] = "read"]

\* open raises: except Exception sets the error, return header_data
HdrOpenFails(p) ==
    /\ hdr_pc[p] = "open"
    /\ faults
    /\ header_data' = [header_data EXCEPT ![p] =
                         ErrorHeader("An unexpected error occurred during header read")]
    /\ hdr_pc' = [hdr_pc EXCEPT ![p] = "done"]
    /\ UNCHANGED handles

\* header_bytes = f.read(PCX_HEADER_SIZE) and the rest of the with block;
\* leaving the block closes f
HdrRead(p) ==
    /\ hdr_pc[p] = "read"
    /\ \E n \in ReadLens(PCX_HEADER_SIZE, getsize(file[p])) :
         /\ header_data' = [header_data EXCEPT ![p] =
                              HeaderFromBytes(ReadAt(file[p], 0, n))]
         /\ short_left' = ShortAfter(n, Min(PCX_HEADER_SIZE, getsize(file[p])))
    /\ handles' = [handles EXCEPT ![p] = WithExit(@)]
    /\ hdr_pc' = [hdr_pc EXCEPT ![p] = "done"]

\* f.read raises: the with block closes f, except Exception sets the error
HdrReadFails(p) ==
    /\ hdr_pc[p] = "read"
    /\ faults
    /\ header_data' = [header_data EXCEPT ![p] =
                         ErrorHeader("An unexpected error occurred during header read")]
    /\ handles' = [handles EXCEPT ![p] = WithExit(@)]
    /\ hdr_pc' = [hdr_pc EXCEPT ![p] = "done"]
    /\ UNCHANGED short_left

\* the steps of read_pcx_header, which leave the other functions' locals alone
HdrStep(p) ==
    \/ HdrOpen(p) /\ UNCHANGED <<rleVars, envVars, short_left, palVars, rdVars>>
    \/ HdrOpenFails(p) /\ UNCHANGED <<rleVars, envVars, short_left, palVars, rdVars>>
    \/ HdrRead(p) /\ UNCHANGED <<rleVars, envVars, palVars, rdVars>>
    \/ HdrReadFails(p) /\ UNCHANGED <<rleVars, envVars, palVars, rdVars>>

(***************************************************************************)
(* read_pcx_256_palette                                                    *)
(***************************************************************************)
PCX_PALETTE_SIZE == 768

PCX_PALETTE_SIGNATURE_SIZE == 1

PCX_TAIL_SIZE == PCX_PALETTE_SIGNATURE_SIZE + PCX_PALETTE_SIZE

\* required_tail = PCX_TAIL_SIZE
required_tail == PCX_TAIL_SIZE

\* chunk_size = 4096
chunk_size == 4096

PALETTE_SIGNATURE == 12

\* combined[-n:] of a combined at least n long
LastN(s, n) == SubSeq(s, Len(s) - n + 1, Len(s))

TailFromChunkOnly(t, chunk) ==
    IF Len(chunk) <= required_tail THEN chunk ELSE LastN(chunk, required_tail)
TailKeepsFirst(t, chunk) == SubSeq(t \o chunk, 1, Min(required_tail, Len(t) + Len(chunk)))
\* the if / else that appends the chunk to tail or slides the window
TailAfter(t, chunk) ==
    IF Len(t) + Len(chunk) <= required_tail
    THEN t \o chunk
    ELSE LastN(t \o chunk, required_tail)

\* more than 3 distinct byte values, not all of them zero
HeuristicAccepts(bytes) ==
    LET values == {bytes[k] : k \in 1..Len(bytes)}
    IN  values # {0} /\ Cardinality(values) > 3

SignatureOrHeuristic(t) ==
    t[1] = PALETTE_SIGNATURE \/ HeuristicAccepts(SubSeq(t, 2, Len(t)))
\* signature = tail[0]; signature == 12
SignatureOk(t) == t[1] = PALETTE_SIGNATURE

PaletteEntryReversed(rgb_bytes, n) == <<rgb_bytes[n + 3], rgb_bytes[n + 2], rgb_bytes[n + 1]>>
\* (rgb_bytes[i], rgb_bytes[i + 1], rgb_bytes[i + 2]) for i = n
PaletteEntry(rgb_bytes, n) == <<rgb_bytes[n + 1], rgb_bytes[n + 2], rgb_bytes[n + 3]>>

\* The code after the with block: the checks of the tail and the grouping of
\* the 768 palette bytes; None or the list of 256 triples.
PaletteFromTail(t) ==
    IF Len(t) < required_tail THEN None
    ELSE IF ~SignatureOk(t) THEN None
    ELSE LET palette_bytes == SubSeq(t, 2, Min(1 + PCX_PALETTE_SIZE, Len(t)))
         IN  IF Len(palette_bytes) < PCX_PALETTE_SIZE THEN None
             ELSE LET rgb_bytes == Unpack(Rep(PCX_PALETTE_SIZE, 1), palette_bytes)
                  IN  Some([k \in 1..(PCX_PALETTE_SIZE \div 3) |->
                              PaletteEntry(rgb_bytes, 3 * (k - 1))])

TooShortForTailOnly(file_size) == file_size < required_tail
\* if file_size < PCX_HEADER_SIZE + required_tail
TooShortForPalette(file_size) == file_size < PCX_HEADER_SIZE + required_tail

\* os.path.getsize succeeds; the file is too short for a palette, or tail = b''
PalStat(p) ==
    /\ pal_pc[p] = "stat"
    /\ IF TooShortForPalette(getsize(file[p]))
       THEN /\ palette' = [palette EXCEPT ![p] = None]
            /\ pal_pc' = [pal_pc EXCEPT ![p] = "done"]
            /\ UNCHANGED tail
       ELSE /\ tail' = [tail EXCEPT ![p] = <<>>]
            /\ pal_pc' = [pal_pc EXCEPT ![p] = "open"]
            /\ UNCHANGED palette
    /\ UNCHANGED <<pal_pos, handles, short_left>>

PartialPalette(t) ==
    Some([k \in 1..(Len(t) \div 3) |-> <<t[3 * k - 2], t[3 * k - 1], t[3 * k]>>])
\* except OSError: return None, and except Exception: return None; t is the
\* tail built so far, which the handlers do not use
PaletteOnError(t) == None

\* os.path.getsize raises OSError: return None
PalStatFails(p) ==
    /\ pal_pc[p] = "stat"
    /\ faults
    /\ palette' = [palette EXCEPT ![p] = PaletteOnError(tail[p])]
    /\ pal_pc' = [pal_pc EXCEPT ![p] = "done"]
    /\ UNCHANGED <<tail, pal_pos, handles, short_left>>

\* open(file_path, 'rb') succeeds
PalOpen(p) ==
    /\ pal_pc[p] = "open"
    /\ handles' = [handles EXCEPT ![p] = @ + 1]
    /\ pal_pos' = [pal_pos EXCEPT ![p] = 0]
    /\ pal_pc' = [pal_pc EXCEPT ![p] = "loop"]
    /\ UNCHANGED <<tail, palette, short_left>>

\* open raises: except Exception returns None
PalOpenFails(p) ==
    /\ pal_pc[p] = "open"
    /\ faults
    /\ palette' = [palette EXCEPT ![p] = PaletteOnError(tail[p])]
    /\ pal_pc' = [pal_pc EXCEPT ![p] = "done"]
    /\ UNCHANGED <<tail, pal_pos, handles, short_left>>

\* chunk = f.read(chunk_size) returns bytes: one iteration of while True
PalChunk(p) ==
    /\ pal_pc[p] = "loop"
    /\ pal_pos[p] < getsize(file[p])
    /\ \E n \in ReadLens(chunk_size, getsize(file[p]) - pal_pos[p]) :
         /\ tail' = [tail EXCEPT ![p] = TailAfter(@, ReadAt(file[p], pal_pos[p], n))]
         /\ pal_pos' = [pal_pos EXCEPT ![p] = @ + n]
         /\ short_left' = ShortAfter(n, Min(chunk_size, getsize(file[p]) - pal_pos[p]))
    /\ UNCHANGED <<pal_pc, palette, handles>>

\* chunk is b'' at the end of the file: break, the with block closes f, and
\* the code after it returns None or the palette
PalEof(p) ==
    /\ pal_pc[p] = "loop"
    /\ pal_pos[p] >= getsize(file[p])
    /\ handles' = [handles EXCEPT ![p] = WithExit(@)]
    /\ palette' = [palette EXCEPT ![p] = PaletteFromTail(tail[p])]
    /\ pal_pc' = [pal_pc EXCEPT ![p] = "done"]
    /\ UNCHANGED <<tail, pal_pos, short_left>>

\* f.read raises: the with block closes f, except Exception returns None
PalReadFails(p) ==
    /\ pal_pc[p] = "loop"
    /\ faults
    /\ handles' = [handles EXCEPT ![p] = WithExit(@)]
    /\ palette' = [palette EXCEPT ![p] = PaletteOnError(tail[p])]
    /\ pal_pc' = [pal_pc EXCEPT ![p] = "done"]
    /\ UNCHANGED <<tail, pal_pos, short_left>>

\* the steps of read_pcx_256_palette
PalStep(p) ==
    \/ PalStat(p) /\ UNCHANGED <<rleVars, envVars, hdrVars, rdVars>>
    \/ PalStatFails(p) /\ UNCHANGED <<rleVars, envVars, hdrVars, rdVars>>
    \/ PalOpen(p) /\ UNCHANGED <<rleVars, envVars, hdrVars, rdVars>>
    \/ PalOpenFails(p) /\ UNCHANGED <<rleVars, envVars, hdrVars, rdVars>>
    \/ PalChunk(p) /\ UNCHANGED <<rleVars, envVars, hdrVars, rdVars>>
    \/ PalEof(p) /\ UNCHANGED <<rleVars, envVars, hdrVars, rdVars>>
    \/ PalReadFails(p) /\ UNCHANGED <<rleVars, envVars, hdrVars, rdVars>>

(***************************************************************************)
(* read_pcx                                                                *)
(***************************************************************************)
\* read_block = 8192
read_block == 8192

\* the truth value of a Python int
Truthy(x) == x # 0

\* s[a:b] for 0 <= a <= b
Slice(s, a, b) == SubSeq(s, a + 1, Min(b, Len(s)))

\* s[:w], where a negative w counts from the end
SliceTo(s, w) ==
    IF w >= 0 THEN SubSeq(s, 1, Min(w, Len(s)))
    ELSE SubSeq(s, 1, IF Len(s) + w > 0 THEN Len(s) + w ELSE 0)

\* b''.join(chunks)
RECURSIVE Join(_)
Join(cs) == IF cs = <<>> THEN <<>> ELSE Head(cs) \o Join(Tail(cs))

RowPixelsFromSecond(row_bytes, width) == SubSeq(row_bytes, 2, Min(width + 1, Len(row_bytes)))
\* row_bytes[:width]
RowPixels(row_bytes, width) == SliceTo(row_bytes, width)

\* the loop `for row in range(height)` from the given row and offset: the
\* entries it adds to pixel_list
RECURSIVE PixelRows(_, _, _, _, _, _)
PixelRows(decoded, width, height, bytes_per_line, row, offset) ==
    IF row >= height THEN <<>>
    ELSE LET row_bytes == Slice(decoded, offset, offset + bytes_per_line)
         IN  IF Len(row_bytes) < bytes_per_line THEN <<>>
             ELSE RowPixels(row_bytes, width)
                  \o PixelRows(decoded, width, height, bytes_per_line,
                               row + 1, offset + bytes_per_line)

\* pal_flat of the source: the triples one after the other
RECURSIVE Flatten(_)
Flatten(pal) == IF pal = <<>> THEN <<>> ELSE Head(pal) \o Flatten(Tail(pal))

\* Image.new('P', (width, height)); putdata(pixel_list); putpalette(...):
\* the image as its size, its width * height pixels in row-major order
\* (putdata fills from the upper left, the rest stays 0) and its palette
NewImage(width, height, pixel_list, pal) ==
    [size |-> <<width, height>>,
     pixels |-> [k \in 1..(width * height) |->
                   IF k <= Len(pixel_list) THEN pixel_list[k] ELSE 0],
     palette |-> IF pal = None \/ pal[1] = <<>> THEN None
                 ELSE LET pal_flat == Flatten(pal[1])
                      IN  IF Len(pal_flat) >= 768
                          THEN Some(SubSeq(pal_flat, 1, 768))
                          ELSE Some(pal_flat \o Rep(768 - Len(pal_flat), 0))]

IsIndexed8Any(bits_per_pixel, planes, width, height, bytes_per_line) ==
    Truthy(width) /\ Truthy(height) /\ Truthy(bytes_per_line)
\* if bits_per_pixel == 8 and planes == 1 and width and height and bytes_per_line
IsIndexed8(bits_per_pixel, planes, width, height, bytes_per_line) ==
    /\ bits_per_pixel = 8
    /\ planes = 1
    /\ Truthy(width) /\ Truthy(height) /\ Truthy(bytes_per_line)

\* Image.new('P', (width, height)) raises ValueError for a negative size and
\* putdata raises for more entries than the image has pixels
ImageRaises(width, height, pixel_list) ==
    width < 0 \/ height < 0 \/ Len(pixel_list) > width * height

\* the keys of header.get(...): a key that is missing gives None, which
\* fails the test `bits_per_pixel == 8 and planes == 1 and width and ...`
ImageKeys == {"Bits/Pixel", "Planes", "Width", "Height", "Bytes/Line"}

\* The value of result["image"] after the palette was read: the image, or
\* None when the format is not the indexed one, the decoded bytes are fewer
\* than expected, PIL is missing, or Image.new (a negative size) or putdata
\* (too many data entries) raises and except Exception returns the result.
AssembleImage(header, decoded, pal, pil) ==
    IF ~(ImageKeys \subseteq DOMAIN header) THEN None ELSE
    LET bits_per_pixel == header["Bits/Pixel"]
        planes == header["Planes"]
        width == header["Width"]
        height == header["Height"]
        bytes_per_line == header["Bytes/Line"]
        expected == bytes_per_line * height
        pixel_list == PixelRows(decoded, width, height, bytes_per_line, 0, 0)
    IN  IF ~IsIndexed8(bits_per_pixel, planes, width, height, bytes_per_line) THEN None
        ELSE IF Len(decoded) < expected THEN None
        ELSE IF ~pil THEN None
        ELSE IF ImageRaises(width, height, pixel_list) THEN None
        ELSE Some(NewImage(width, height, pixel_list, pal))

\* the image construction raises inside the try block of read_pcx
AssembleRaises(header, decoded, pil) ==
    /\ ImageKeys \subseteq DOMAIN header
    /\ IsIndexed8(header["Bits/Pixel"], header["Planes"], header["Width"],
                  header["Height"], header["Bytes/Line"])
    /\ Len(decoded) >= header["Bytes/Line"] * header["Height"]
    /\ pil
    /\ ImageRaises(header["Width"], header["Height"],
                   PixelRows(decoded, header["Width"], header["Height"],
                             header["Bytes/Line"], 0, 0))

ReadPropagates(exc) == "raised"
\* except Exception: return result
ReadOnException(exc) == "done"

\* result = {"header": None, ...}; header = read_pcx_header(file_path) is called
RdStart(p) ==
    /\ rd_pc[p] = "start"
    /\ result' = [result EXCEPT ![p] =
                    [header |-> None, palette |-> None, raw_pixels |-> None, image |-> None]]
    /\ hdr_pc' = [hdr_pc EXCEPT ![p] = "open"]
    /\ rd_pc' = [rd_pc EXCEPT ![p] = "header"]
    /\ UNCHANGED <<header_data, image_data_size, remaining, chunks, rd_pos>>

HeaderFailedNever(header) == FALSE
\* if "Error" in header
HeaderFailed(header) == "Error" \in DOMAIN header

ImageDataToEndOfFile(file_size) == file_size - PCX_HEADER_SIZE
\* image_data_size = file_size - PCX_HEADER_SIZE - PCX_TAIL_SIZE
ImageDataSize(file_size) == file_size - PCX_HEADER_SIZE - PCX_TAIL_SIZE

\* read_pcx_header has returned: result["header"] = header, getsize succeeds,
\* and the early returns down to image_data_size <= 0
RdStat(p) ==
    /\ rd_pc[p] = "header"
    /\ hdr_pc[p] = "done"
    /\ result' = [result EXCEPT ![p].header = Some(header_data[p])]
    /\ LET file_size == getsize(file[p])
       IN  IF \/ HeaderFailed(header_data[p])
              \/ file_size < PCX_HEADER_SIZE + PCX_TAIL_SIZE
              \/ ImageDataSize(file_size) <= 0
           THEN /\ rd_pc' = [rd_pc EXCEPT ![p] = "done"]
                /\ UNCHANGED image_data_size
           ELSE /\ image_data_size' = [image_data_size EXCEPT ![p] =
                                         ImageDataSize(file_size)]
                /\ rd_pc' = [rd_pc EXCEPT ![p] = "open"]
    /\ UNCHANGED <<remaining, chunks, rd_pos>>

\* os.path.getsize raises OSError: return result
RdStatFails(p) ==
    /\ rd_pc[p] = "header"
    /\ hdr_pc[p] = "done"
    /\ faults
    /\ result' = [result EXCEPT ![p].header = Some(header_data[p])]
    /\ rd_pc' = [rd_pc EXCEPT ![p] = "done"]
    /\ UNCHANGED <<image_data_size, remaining, chunks, rd_pos>>

\* open(file_path, 'rb') succeeds
RdOpen(p) ==
    /\ rd_pc[p] = "open"
    /\ handles' = [handles EXCEPT ![p] = @ + 1]
    /\ rd_pos' = [rd_pos EXCEPT ![p] = 0]
    /\ rd_pc' = [rd_pc EXCEPT ![p] = "skip"]
    /\ UNCHANGED <<result, image_data_size, remaining, chunks, short_left>>

\* open raises: except Exception returns result
RdOpenFails(p) ==
    /\ rd_pc[p] = "open"
    /\ faults
    /\ rd_pc' = [rd_pc EXCEPT ![p] = "done"]
    /\ UNCHANGED <<result, image_data_size, remaining, chunks, rd_pos, handles, short_left>>

ChunksShared(p) == 1
\* chunks = [] makes a list that is a local of the call p
ChunksOf(p) == p

\* _ = f.read(PCX_HEADER_SIZE); remaining = image_data_size; chunks = []
RdSkip(p) ==
    /\ rd_pc[p] = "skip"
    /\ \E n \in ReadLens(PCX_HEADER_SIZE, getsize(file[p])) :
         /\ rd_pos' = [rd_pos EXCEPT ![p] = n]
         /\ short_left' = ShortAfter(n, Min(PCX_HEADER_SIZE, getsize(file[p])))
    /\ remaining' = [remaining EXCEPT ![p] = image_data_size[p]]
    /\ chunks' = [chunks EXCEPT ![ChunksOf(p)] = <<>>]
    /\ rd_pc' = [rd_pc EXCEPT ![p] = "loop"]
    /\ UNCHANGED <<result, image_data_size, handles>>

ToReadWholeBlock(rem) == read_block
\* to_read = read_block if remaining >= read_block else remaining
ToRead(rem) == IF rem >= read_block THEN read_block ELSE rem

\* while remaining > 0: a read that returns bytes
RdChunk(p) ==
    /\ rd_pc[p] = "loop"
    /\ remaining[p] > 0
    /\ rd_pos[p] < getsize(file[p])
    /\ LET to_read == ToRead(remaining[p])
           avail == getsize(file[p]) - rd_pos[p]
       IN  \E n \in ReadLens(to_read, avail) :
             /\ chunks' = [chunks EXCEPT ![ChunksOf(p)] = Append(@, ReadAt(file[p], rd_pos[p], n))]
             /\ remaining' = [remaining EXCEPT ![p] = @ - n]
             /\ rd_pos' = [rd_pos EXCEPT ![p] = @ + n]
             /\ short_left' = ShortAfter(n, Min(to_read, avail))
    /\ UNCHANGED <<rd_pc, result, image_data_size, handles>>

\* a read inside the with block raises: f is closed, except Exception returns result
RdReadFails(p) ==
    /\ rd_pc[p] \in {"skip", "loop"}
    /\ rd_pc[p] = "loop" => remaining[p] > 0
    /\ faults
    /\ handles' = [handles EXCEPT ![p] = WithExit(@)]
    /\ rd_pc' = [rd_pc EXCEPT ![p] = "done"]
    /\ UNCHANGED <<result, image_data_size, remaining, chunks, rd_pos, short_left>>

\* The loop ends (remaining is 0, or a read returned b''): compressed is
\* joined; when it is empty the result is returned and f is closed.
RdJoin(p) ==
    /\ rd_pc[p] = "loop"
    /\ remaining[p] <= 0 \/ rd_pos[p] >= getsize(file[p])
    /\ IF Len(Join(chunks[ChunksOf(p)])) = 0
       THEN /\ handles' = [handles EXCEPT ![p] = WithExit(@)]
            /\ rd_pc' = [rd_pc EXCEPT ![p] = "done"]
       ELSE /\ rd_pc' = [rd_pc EXCEPT ![p] = "decode"]
            /\ UNCHANGED handles
    /\ UNCHANGED <<result, image_data_size, remaining, chunks, rd_pos>>

\* compressed is decoded and stored as raw_pixels, and
\* read_pcx_256_palette(file_path) is called.
RdDecode(p) ==
    /\ rd_pc[p] = "decode"
    /\ result' = [result EXCEPT
                    ![p].raw_pixels = Some(pcx_rle_decode(Join(chunks[ChunksOf(p)])))]
    /\ pal_pc' = [pal_pc EXCEPT ![p] = "stat"]
    /\ rd_pc' = [rd_pc EXCEPT ![p] = "palette"]
    /\ UNCHANGED <<image_data_size, remaining, chunks, rd_pos, tail, pal_pos, palette>>

\* read_pcx_256_palette has returned: result["palette"] = palette, the image
\* is assembled when it can be, the result is returned and f is closed
RdAssemble(p) ==
    /\ rd_pc[p] = "palette"
    /\ pal_pc[p] = "done"
    /\ result' = [result EXCEPT
                    ![p].palette = palette[p],
                    ![p].image = AssembleImage(header_data[p], result[p].raw_pixels[1],
                                               palette[p], Image)]
    /\ handles' = [handles EXCEPT ![p] = WithExit(@)]
    /\ rd_pc' = [rd_pc EXCEPT ![p] =
                   IF AssembleRaises(header_data[p], result[p].raw_pixels[1], Image)
                   THEN ReadOnException("Exception") ELSE "done"]
    /\ UNCHANGED <<image_data_size, remaining, chunks, rd_pos>>

\* the steps of read_pcx itself
RdStep(p) ==
    \/ RdStart(p) /\ UNCHANGED <<rleVars, ioVars, palVars>>
    \/ RdStat(p) /\ UNCHANGED <<rleVars, ioVars, hdrVars, palVars>>
    \/ RdStatFails(p) /\ UNCHANGED <<rleVars, ioVars, hdrVars, palVars>>
    \/ RdOpen(p) /\ UNCHANGED <<rleVars, envVars, hdrVars, palVars>>
    \/ RdOpenFails(p) /\ UNCHANGED <<rleVars, envVars, hdrVars, palVars>>
    \/ RdSkip(p) /\ UNCHANGED <<rleVars, envVars, hdrVars, palVars>>
    \/ RdChunk(p) /\ UNCHANGED <<rleVars, envVars, hdrVars, palVars>>
    \/ RdReadFails(p) /\ UNCHANGED <<rleVars, envVars, hdrVars, palVars>>
    \/ RdJoin(p) /\ UNCHANGED <<rleVars, envVars, short_left, hdrVars, palVars>>
    \/ RdDecode(p) /\ UNCHANGED <<rleVars, ioVars, hdrVars>>
    \/ RdAssemble(p) /\ UNCHANGED <<rleVars, envVars, short_left, hdrVars, palVars>>

(***************************************************************************)
(* The headers the files are given: a pattern in which neighbouring bytes  *)
(* differ, with chosen field values written over it.                       *)
(***************************************************************************)
PatternHeader(seed) == [k \in 1..PCX_HEADER_SIZE |-> (seed + 3 * (k - 1)) % 256]

Poke8(s, off, v) == [s EXCEPT ![off + 1] = v]

Poke16(s, off, v) == [s EXCEPT ![off + 1] = v % 256, ![off + 2] = v \div 256]

FieldHeader(bpp, planes, xmin, ymin, xmax, ymax, bpl) ==
    Poke16(Poke8(Poke16(Poke16(Poke16(Poke16(Poke8(PatternHeader(10),
        3, bpp), 4, xmin), 6, ymin), 8, xmax), 10, ymax), 65, planes), 66, bpl)

\* the 16-bit coordinates tried for xmin and xmax
Coord16 == {0, 1, 255, 256, 65535}

\* the (ymin, ymax) pairs tried
YPairs == {<<0, 0>>, <<0, 479>>, <<3, 1>>}

HdrBpp == {1, 4, 8, 24}

HdrPlanes == {1, 3, 4}

HdrSamples ==
    {PatternHeader(seed) : seed \in {0, 10, 200}}
    \cup {FieldHeader(bpp, planes, xmin, y[1], xmax, y[2], 6) :
            bpp \in HdrBpp, planes \in HdrPlanes,
            xmin \in Coord16, xmax \in Coord16, y \in YPairs}

\* the lengths of the files that end inside the header
ShortHeaderLens == {0, 1, 127}

HdrFiles ==
    {MkFile(h, <<>>, 0, -1, 0, 0) : h \in HdrSamples}
    \cup {MkFile(SubSeq(PatternHeader(10), 1, n), <<>>, 0, -1, 0, 0) : n \in ShortHeaderLens}
    \cup {MkFile(PatternHeader(10), <<5, 195>>, 0, -1, 0, 0),
          MkFile(PatternHeader(10), <<5, 195, 7>>, 0, 12, 768, 1)}

\* the short reads a behaviour may see
MaxShortReads == 1

RleIdle ==
    /\ data = <<>>
    /\ i = 0
    /\ out = <<>>
    /\ rle_pc = "idle"

\* the calls of a behaviour with a single call
OneCall == {1}

\* the calls P do not run read_pcx_header
HdrIdle(P) ==
    /\ hdr_pc = [p \in P |-> "idle"]
    /\ header_data = [p \in P |-> None]

\* the calls P do not run read_pcx_256_palette
PalIdle(P) ==
    /\ pal_pc = [p \in P |-> "idle"]
    /\ tail = [p \in P |-> <<>>]
    /\ pal_pos = [p \in P |-> 0]
    /\ palette = [p \in P |-> None]

\* the calls P do not run read_pcx
RdIdle(P) ==
    /\ rd_pc = [p \in P |-> "idle"]
    /\ result = [p \in P |-> None]
    /\ image_data_size = [p \in P |-> 0]
    /\ remaining = [p \in P |-> 0]
    /\ chunks = [p \in P |-> <<>>]
    /\ rd_pos = [p \in P |-> 0]

\* one call of read_pcx_header(file_path)
HdrInit ==
    /\ RleIdle
    /\ ViewIdle
    /\ file \in [OneCall -> HdrFiles]
    /\ faults \in BOOLEAN
    /\ Image = TRUE
    /\ short_left \in {0, MaxShortReads}
    /\ handles = [p \in OneCall |-> 0]
    /\ hdr_pc = [p \in OneCall |-> "open"]
    /\ header_data = [p \in OneCall |-> None]
    /\ PalIdle(OneCall)
    /\ RdIdle(OneCall)

HdrNext == \E p \in OneCall : HdrStep(p)

SpecHdr == HdrInit /\ [][HdrNext]_vars

\* the files given to read_pcx_256_palette: too short for a palette, of
\* exactly 128 + 769 bytes, longer, and longer than one chunk; with and
\* without the signature; and one whose byte at size - 769 is a filler byte
\* of value 12 in front of a block that is one byte short
PalFiles ==
    {MkFile(PatternHeader(10), <<>>, 0, -1, 0, 0),
     MkFile(PatternHeader(10), <<5>>, 767, -1, 0, 0),
     MkFile(PatternHeader(10), <<>>, 0, 12, 767, 1),
     MkFile(PatternHeader(10), <<>>, 12, 12, 767, 1),
     MkFile(PatternHeader(10), <<>>, 769, -1, 0, 0)}
    \cup {MkFile(PatternHeader(10), <<>>, 0, sig, 768, id) :
            sig \in {12, 10, 0}, id \in {0, 1, 3}}
    \cup {MkFile(PatternHeader(10), <<5, 195>>, pad, sig, 768, 3) :
            sig \in {12, 13}, pad \in {0, 3197, 3198}}

\* one call of read_pcx_256_palette(file_path)
PalInit ==
    /\ RleIdle
    /\ ViewIdle
    /\ file \in [OneCall -> PalFiles]
    /\ faults \in BOOLEAN
    /\ Image = TRUE
    /\ short_left \in {0, MaxShortReads}
    /\ handles = [p \in OneCall |-> 0]
    /\ HdrIdle(OneCall)
    /\ pal_pc = [p \in OneCall |-> "stat"]
    /\ tail = [p \in OneCall |-> <<>>]
    /\ pal_pos = [p \in OneCall |-> 0]
    /\ palette = [p \in OneCall |-> None]
    /\ RdIdle(OneCall)

PalNext == \E p \in OneCall : PalStep(p)

SpecPal == PalInit /\ [][PalNext]_vars

\* The files given to the read loop of read_pcx: image data of 3, 8192 and
\* 8200 bytes (a literal, a run and filler) before a palette block.
LoopPads == {0, 8189, 8197}

LoopFiles ==
    {MkFile(FieldHeader(8, 1, 0, 0, 3, 1, 6), <<5, 195, 7>>, pad, 12, 768, 3) : pad \in LoopPads}

\* read_pcx from `with open(file_path, 'rb') as f:` to the join of the
\* chunks: the header was read, the size checks have passed
LoopInit ==
    /\ RleIdle
    /\ ViewIdle
    /\ file \in [OneCall -> LoopFiles]
    /\ faults \in BOOLEAN
    /\ Image = FALSE
    /\ short_left \in {0, MaxShortReads}
    /\ handles = [p \in OneCall |-> 0]
    /\ hdr_pc = [p \in OneCall |-> "done"]
    /\ header_data = [p \in OneCall |-> HeaderFromBytes(file[p].hdr)]
    /\ PalIdle(OneCall)
    /\ rd_pc = [p \in OneCall |-> "open"]
    /\ result = [p \in OneCall |->
                   [header |-> Some(HeaderFromBytes(file[p].hdr)), palette |-> None,
                    raw_pixels |-> None, image |-> None]]
    /\ image_data_size = [p \in OneCall |-> ImageDataSize(getsize(file[p]))]
    /\ remaining = [p \in OneCall |-> 0]
    /\ chunks = [p \in OneCall |-> <<>>]
    /\ rd_pos = [p \in OneCall |-> 0]

LoopStep(p) ==
    \/ RdOpen(p) /\ UNCHANGED <<rleVars, envVars, hdrVars, palVars>>
    \/ RdOpenFails(p) /\ UNCHANGED <<rleVars, envVars, hdrVars, palVars>>
    \/ RdSkip(p) /\ UNCHANGED <<rleVars, envVars, hdrVars, palVars>>
    \/ RdChunk(p) /\ UNCHANGED <<rleVars, envVars, hdrVars, palVars>>
    \/ RdReadFails(p) /\ UNCHANGED <<rleVars, envVars, hdrVars, palVars>>
    \/ RdJoin(p) /\ UNCHANGED <<rleVars, envVars, short_left, hdrVars, palVars>>

LoopNext == \E p \in OneCall : LoopStep(p)

SpecLoop == LoopInit /\ [][LoopNext]_vars

\* two calls of read_pcx whose steps interleave
TwoCalls == {1, 2}

ConcFiles ==
    {MkFile(FieldHeader(8, 1, 0, 0, 3, 1, 6),
            <<170, 187, 193, 204, 193, 221, 194, 0, 193, 238, 193, 255, 17, 34, 194, 0>>,
            0, 12, 768, 3),
     MkFile(FieldHeader(8, 1, 0, 0, 3, 1, 2), <<5, 195, 7>>, 0, 10, 768, 3),
     MkFile(FieldHeader(8, 1, 0, 0, 3, 1, 6), <<5, 195, 7>>, 0, -1, 0, 0)}

ConcInit ==
    /\ RleIdle
    /\ ViewIdle
    /\ file \in [TwoCalls -> ConcFiles]
    /\ faults \in BOOLEAN
    /\ Image = TRUE
    /\ short_left \in {0, MaxShortReads}
    /\ handles = [p \in TwoCalls |-> 0]
    /\ HdrIdle(TwoCalls)
    /\ PalIdle(TwoCalls)
    /\ rd_pc = [p \in TwoCalls |-> "start"]
    /\ result = [p \in TwoCalls |-> None]
    /\ image_data_size = [p \in TwoCalls |-> 0]
    /\ remaining = [p \in TwoCalls |-> 0]
    /\ chunks = [p \in TwoCalls |-> <<>>]
    /\ rd_pos = [p \in TwoCalls |-> 0]

ConcNext == \E p \in TwoCalls : RdStep(p) \/ HdrStep(p) \/ PalStep(p)

SpecConc == ConcInit /\ [][ConcNext]_vars

\* the image data of the files given to read_pcx: the RLE encoding of the
\* rows AA BB CC DD 00 00 / EE FF 11 22 00 00, the same cut inside the
\* second row, a run of count 0 (which decodes to nothing), and a literal
\* after a lone literal run
ExampleData == <<170, 187, 193, 204, 193, 221, 194, 0, 193, 238, 193, 255, 17, 34, 194, 0>>

ReadData == {ExampleData, SubSeq(ExampleData, 1, 10), <<192, 5>>, <<5, 195, 7>>}

\* the headers of the files given to read_pcx, as FieldHeader(bpp, planes,
\* xmin, ymin, xmax, ymax, bpl): 4 x 2 pixels in lines of 6 bytes and of 2
\* bytes, a width of 0 and of -4, a height of -1, 3 planes, 4 bits per
\* pixel, and lines of 0 bytes
ReadHeaders ==
    {FieldHeader(8, 1, 0, 0, 3, 1, 6), FieldHeader(8, 1, 0, 0, 3, 1, 2),
     FieldHeader(8, 1, 1, 0, 0, 1, 6), FieldHeader(8, 1, 5, 0, 0, 1, 6),
     FieldHeader(8, 1, 0, 3, 3, 1, 6), FieldHeader(8, 3, 0, 0, 3, 1, 6),
     FieldHeader(4, 1, 0, 0, 3, 1, 6), FieldHeader(8, 1, 0, 0, 3, 1, 0)}

ReadFiles ==
    {MkFile(SubSeq(PatternHeader(10), 1, n), <<>>, 0, -1, 0, 0) : n \in ShortHeaderLens}
    \cup {MkFile(FieldHeader(8, 1, 0, 0, 3, 1, 6), ExampleData, 0, -1, 0, 0),
          MkFile(FieldHeader(8, 1, 0, 0, 3, 1, 6), <<>>, 0, 12, 768, 1)}
    \cup {MkFile(h, d, 0, sig, 768, 3) : h \in ReadHeaders, d \in ReadData, sig \in {12, 10}}

\* one call of read_pcx(file_path)
RdInit ==
    /\ RleIdle
    /\ ViewIdle
    /\ file \in [OneCall -> ReadFiles]
    /\ faults \in BOOLEAN
    /\ Image \in BOOLEAN
    /\ short_left \in {0, MaxShortReads}
    /\ handles = [p \in OneCall |-> 0]
    /\ HdrIdle(OneCall)
    /\ PalIdle(OneCall)
    /\ rd_pc = [p \in OneCall |-> "start"]
    /\ result = [p \in OneCall |-> None]
    /\ image_data_size = [p \in OneCall |-> 0]
    /\ remaining = [p \in OneCall |-> 0]
    /\ chunks = [p \in OneCall |-> <<>>]
    /\ rd_pos = [p \in OneCall |-> 0]

\* read_pcx and the two functions it calls
RdNext == \E p \in OneCall : RdStep(p) \/ HdrStep(p) \/ PalStep(p)

SpecRead == RdInit /\ [][RdNext]_vars

(***************************************************************************)
(* The reference PCX run-length decoder, by recursion on the input: a byte *)
(* >= 0xC0 is a marker whose low six bits count the copies of the byte     *)
(* after it; any other byte stands for itself.                             *)
(***************************************************************************)
Front(s) == SubSeq(s, 1, Len(s) - 1)

Rest(s, n) == SubSeq(s, n + 1, Len(s))

RECURSIVE RefDecode(_)
RefDecode(d) ==
    IF d = <<>> THEN <<>>
    ELSE IF d[1] >= 192
         THEN IF Len(d) = 1 THEN <<>>
              ELSE [k \in 1..(d[1] % 64) |-> d[2]] \o RefDecode(Rest(d, 2))
         ELSE <<d[1]>> \o RefDecode(Rest(d, 1))

\* the sum of the counts of the runs (marker and value) plus the literals
RECURSIVE RefLength(_)
RefLength(d) ==
    IF d = <<>> THEN 0
    ELSE IF d[1] >= 192
         THEN IF Len(d) = 1 THEN 0 ELSE (d[1] % 64) + RefLength(Rest(d, 2))
         ELSE 1 + RefLength(Rest(d, 1))

\* the last byte is a marker that no value byte follows
RECURSIVE Dangling(_)
Dangling(d) ==
    IF d = <<>> THEN FALSE
    ELSE IF d[1] >= 192
         THEN IF Len(d) = 1 THEN TRUE ELSE Dangling(Rest(d, 2))
         ELSE Dangling(Rest(d, 1))

\* C1: pcx_rle_decode never raises and returns the reference decoder's
\* output, whose length is the sum of the run counts plus the literals.
C1_DecodeIsReference ==
    /\ rle_pc # "raised"
    /\ rle_pc = "done" => /\ out = RefDecode(data)
                          /\ Len(out) = RefLength(data)

\* [0xC3, 0x05] has been decoded to [5, 5, 5]
C1_Witness == rle_pc = "done" /\ data = <<195, 5>> /\ out = <<5, 5, 5>>

\* C2: when the input ends in a marker without a value, decoding ends without
\* raising and returns the decoding of the input without that marker.
C2_TruncatedMarkerDropped ==
    Dangling(data) =>
        /\ rle_pc # "raised"
        /\ rle_pc = "done" => out = pcx_rle_decode(Front(data))

\* a literal and a run were decoded before the lone 0xC2 was dropped
C2_Witness ==
    /\ rle_pc = "done"
    /\ data = <<5, 195, 191, 194>>
    /\ out = <<5, 191, 191, 191>>

\* an iteration that reads a marker which a value byte follows
RunIteration ==
    /\ rle_pc = "loop"
    /\ i + 1 < Len(data)
    /\ IsMarker(data[i + 1])

\* C3 as stated: every marker followed by a value appends between 1 and 63
\* bytes (its count b & 0x3F is in 1..63).
C3_CountAtLeastOne ==
    [][RunIteration =>
         /\ RunCount(data[i + 1]) \in 1..63
         /\ Len(out') - Len(out) \in 1..63]_vars

\* C3 amended: the count b & 0x3F is b - 0xC0, in 0..63, and the marker with
\* its value appends exactly that many bytes: none for 0xC0, at most 63.
C3_CountInRange ==
    [][RunIteration =>
         /\ RunCount(data[i + 1]) = data[i + 1] - 192
         /\ RunCount(data[i + 1]) \in 0..63
         /\ Len(out') - Len(out) = RunCount(data[i + 1])]_vars

\* a 0xC0 marker and its value were consumed and nothing was appended;
\* a 0xFF marker appended 63 bytes
C3_Witness ==
    /\ rle_pc = "done"
    /\ \/ data = <<192, 5>> /\ out = <<>>
       \/ data = <<255, 5>> /\ Len(out) = 63

\* C4: an input without any byte >= 0xC0 is returned unchanged.
C4_LiteralsUnchanged ==
    (rle_pc = "done" /\ \A k \in 1..Len(data) : data[k] < 192) => out = data

C4_Witness ==
    /\ rle_pc = "done"
    /\ data = <<5, 191, 5>>
    /\ out = data

(***************************************************************************)
(* Claims about read_pcx_header.                                           *)
(***************************************************************************)
\* the little-endian 16-bit value at offset off of the file
LE16(f, off) == FileBytes(f)[off + 1] + 256 * FileBytes(f)[off + 2]

U8(f, off) == FileBytes(f)[off + 1]

\* read_pcx_header has returned a header without an "Error" entry
ValidHeader(p) == hdr_pc[p] = "done" /\ "Error" \notin DOMAIN header_data[p]

\* C6: every valid header has Width = xmax - xmin + 1 >= 1 and
\* Height = ymax - ymin + 1 >= 1, for the 16-bit values found in the file.
C6_DimensionsAtLeastOne ==
    \A p \in DOMAIN hdr_pc :
        ValidHeader(p) =>
            /\ header_data[p]["Width"] = LE16(file[p], 8) - LE16(file[p], 4) + 1
            /\ header_data[p]["Height"] = LE16(file[p], 10) - LE16(file[p], 6) + 1
            /\ header_data[p]["Width"] >= 1
            /\ header_data[p]["Height"] >= 1

\* the fields of the table whose offsets the source and the claim agree on
FieldsUpToPlanes(h, f) ==
    /\ h["Manufacturer"] = U8(f, 0)
    /\ h["Version"] = U8(f, 1)
    /\ h["Encoding"] = U8(f, 2)
    /\ h["Bits/Pixel"] = U8(f, 3)
    /\ h["Width"] = LE16(f, 8) - LE16(f, 4) + 1
    /\ h["Height"] = LE16(f, 10) - LE16(f, 6) + 1
    /\ h["H/V DPI"] = <<LE16(f, 12), LE16(f, 14)>>
    /\ h["Planes"] = U8(f, 65)

\* C7 as stated: each field is the value at the offset of the spec's table,
\* with bytesPerLine@69, paletteType@71, hScreenSize@73, vScreenSize@75.
C7_FieldsAtSpecOffsets ==
    \A p \in DOMAIN hdr_pc :
        ValidHeader(p) =>
            /\ FieldsUpToPlanes(header_data[p], file[p])
            /\ header_data[p]["Bytes/Line"] = LE16(file[p], 69)
            /\ header_data[p]["Palette Type"] = LE16(file[p], 71)
            /\ header_data[p]["H Screen Size"] = LE16(file[p], 73)
            /\ header_data[p]["V Screen Size"] = LE16(file[p], 75)

\* C7 amended: the fields after numColorPlanes@65 follow it directly:
\* bytesPerLine@66, paletteType@68, hScreenSize@70, vScreenSize@72.
C7_FieldsAtStructOffsets ==
    \A p \in DOMAIN hdr_pc :
        ValidHeader(p) =>
            /\ FieldsUpToPlanes(header_data[p], file[p])
            /\ header_data[p]["Bytes/Line"] = LE16(file[p], 66)
            /\ header_data[p]["Palette Type"] = LE16(file[p], 68)
            /\ header_data[p]["H Screen Size"] = LE16(file[p], 70)
            /\ header_data[p]["V Screen Size"] = LE16(file[p], 72)

\* a header was parsed whose bytes at 66.. and at 69.. hold different values
C7_Witness ==
    \E p \in DOMAIN hdr_pc :
        /\ ValidHeader(p)
        /\ LE16(file[p], 66) # LE16(file[p], 69)
        /\ LE16(file[p], 72) # LE16(file[p], 75)
        /\ header_data[p]["Bytes/Line"] = LE16(file[p], 66)

\* the first matching rule, in the order of the claim
FirstMatchingRule(planes, bpp) ==
    CASE planes = 1 /\ bpp = 8 -> "256-Color (External)"
      [] bpp <= 4 /\ planes = 1 -> "16-Color (Internal)"
      [] bpp = 8 /\ planes = 3 -> "24-bit True Color"
      [] OTHER -> "Custom/Unknown"

\* C8: Palette Info is the first matching rule for the planes and bits per
\* pixel of the file, and Is Indexed holds exactly for 1 plane of 8 bits.
C8_PaletteInfoByFirstRule ==
    \A p \in DOMAIN hdr_pc :
        ValidHeader(p) =>
            LET planes == U8(file[p], 65)
                bpp == U8(file[p], 3)
            IN  /\ header_data[p]["Palette Info"] = FirstMatchingRule(planes, bpp)
                /\ header_data[p]["Is Indexed"] = (planes = 1 /\ bpp = 8)

\* a 3-plane 8-bit header was classified as true color
C8_Witness ==
    \E p \in DOMAIN hdr_pc :
        /\ ValidHeader(p)
        /\ U8(file[p], 65) = 3
        /\ U8(file[p], 3) = 8
        /\ header_data[p]["Palette Info"] = "24-bit True Color"
        /\ header_data[p]["Is Indexed"] = FALSE

(***************************************************************************)
(* Claims about read_pcx.                                                  *)
(***************************************************************************)
\* read_pcx_header has returned the header of a read of fewer than 128 bytes
HeaderTooShortReturned(p) ==
    /\ hdr_pc[p] = "done"
    /\ "Error" \in DOMAIN header_data[p]
    /\ header_data[p]["Error"] = "File too short to read full 128-byte header."

\* C5: when fewer than 128 bytes can be read, read_pcx_header returns a
\* header with an "Error" entry and no parsed field, and read_pcx returns
\* that header with palette, raw_pixels and image None, without having
\* opened the file for the image data or called read_pcx_256_palette.
C5_ShortHeaderStopsRead ==
    \A p \in DOMAIN rd_pc :
        /\ (hdr_pc[p] = "done" /\ getsize(file[p]) < 128) =>
              /\ DOMAIN header_data[p] = {"File Path", "Error"}
              /\ ~faults => HeaderTooShortReturned(p)
        /\ HeaderTooShortReturned(p) =>
              /\ DOMAIN header_data[p] = {"File Path", "Error"}
              /\ pal_pc[p] = "idle"
              /\ rd_pc[p] \in {"header", "done"}
              /\ chunks[p] = <<>>
              /\ rd_pc[p] = "done" =>
                    result[p] = [header |-> Some(header_data[p]), palette |-> None,
                                 raw_pixels |-> None, image |-> None]

\* read_pcx has returned for a file of 127 bytes
C5_Witness ==
    \E p \in DOMAIN rd_pc :
        /\ rd_pc[p] = "done"
        /\ getsize(file[p]) = 127
        /\ HeaderTooShortReturned(p)
        /\ result[p].palette = None /\ result[p].raw_pixels = None /\ result[p].image = None

(***************************************************************************)
(* Claims about read_pcx_256_palette.                                      *)
(***************************************************************************)
\* read_pcx_256_palette has returned to the caller p
PaletteReturned(p) == pal_pc[p] = "done"

\* the byte of the file at offset off (from 0)
ByteAt(f, off) == FileBytes(f)[off + 1]

\* the file has room for a header and a tail, and the byte at size - 769 is 0x0C
SignatureInFile(f) ==
    /\ getsize(f) >= PCX_HEADER_SIZE + PCX_TAIL_SIZE
    /\ ByteAt(f, getsize(f) - 769) = 12

\* C9: a palette that is returned has exactly 256 triples of channels in
\* 0..255, and entry k is the bytes 1+3k, 2+3k, 3+3k of the last 769 bytes of
\* the file, whose first byte is the signature 0x0C.
C9_PaletteIsTailInFileOrder ==
    \A p \in DOMAIN pal_pc :
        (PaletteReturned(p) /\ palette[p] # None) =>
            LET F == FileBytes(file[p])
                base == Len(F) - 769
                pal == palette[p][1]
            IN  /\ base >= 0
                /\ F[base + 1] = 12
                /\ Len(pal) = 256
                /\ \A k \in 0..255 :
                     /\ pal[k + 1] = <<F[base + 1 + (1 + 3 * k)],
                                       F[base + 1 + (2 + 3 * k)],
                                       F[base + 1 + (3 + 3 * k)]>>
                     /\ \A c \in 1..3 : pal[k + 1][c] \in 0..255

\* a palette whose channels differ was returned from a file read in more
\* than one chunk
C9_Witness ==
    \E p \in DOMAIN pal_pc :
        /\ PaletteReturned(p)
        /\ palette[p] # None
        /\ getsize(file[p]) > chunk_size
        /\ palette[p][1][2][1] # palette[p][1][2][3]

\* C10: for a file of at least 128 + 769 bytes that is read without an I/O
\* error, a 256-entry palette is returned exactly when the byte at
\* size - 769 is 0x0C; and no palette is ever returned without that
\* signature, whatever the 768 bytes after it are.
C10_PaletteIffSignature ==
    \A p \in DOMAIN pal_pc :
        PaletteReturned(p) =>
            /\ palette[p] # None => SignatureInFile(file[p]) /\ Len(palette[p][1]) = 256
            /\ (~faults /\ SignatureInFile(file[p])) => palette[p] # None

\* a file of exactly 897 bytes without the signature, whose 768 last bytes
\* would pass the fallback heuristic, gave no palette
C10_Witness ==
    \E p \in DOMAIN pal_pc :
        /\ PaletteReturned(p)
        /\ getsize(file[p]) = 897
        /\ ByteAt(file[p], 128) # 12
        /\ HeuristicAccepts(SubSeq(FileBytes(file[p]), 130, 897))
        /\ palette[p] = None
        /\ ~faults

(***************************************************************************)
(* The palette of a file that has no room for one, and the window of the   *)
(* last 769 bytes.                                                         *)
(***************************************************************************)
\* C11: for a file of fewer than 897 bytes read_pcx_256_palette returns None
\* and reads nothing of the file: it never opens it, its read position stays
\* 0 and its tail stays empty.
C11_ShortFileNotRead ==
    \A p \in OneCall :
        getsize(file[p]) < 897 =>
            /\ pal_pc[p] \in {"idle", "stat", "done"}
            /\ handles[p] = 0
            /\ pal_pos[p] = 0
            /\ tail[p] = <<>>
            /\ PaletteReturned(p) => palette[p] = None

\* a file of 896 bytes whose last 769 are a signature and a palette one byte
\* short: the call has returned None through the size check
C11_Witness ==
    \E p \in OneCall :
        /\ PaletteReturned(p)
        /\ ~faults
        /\ getsize(file[p]) = 896
        /\ file[p].sig = PALETTE_SIGNATURE
        /\ palette[p] = None
        /\ handles[p] = 0

\* C12: once the file is open, after every chunk the tail holds at most 769
\* bytes and is the last min(769, n) of the n bytes read so far, whatever the
\* lengths of the chunks.
C12_TailIsSuffixOfRead ==
    \A p \in OneCall :
        pal_pc[p] \in {"loop", "done"} =>
            LET n == pal_pos[p]
                k == Min(769, n)
            IN  /\ Len(tail[p]) <= 769
                /\ tail[p] = SubSeq(FileBytes(file[p]), n - k + 1, n)

\* the window has slid twice: a short first chunk, then a full one, then the
\* rest of a file of 4097 bytes
C12_Witness ==
    \E p \in OneCall :
        /\ pal_pc[p] = "loop"
        /\ getsize(file[p]) = 4097
        /\ pal_pos[p] = 4097
        /\ short_left < MaxShortReads
        /\ Len(tail[p]) = 769
        /\ tail[p][1] = file[p].sig

(***************************************************************************)
(* The direct-seek strategy of the specification: seek to fileSize - 769,  *)
(* read once, then the same signature check and grouping.                  *)
(***************************************************************************)
DirectSeekTail(f) == ReadAt(f, getsize(f) - 769, 769)

DirectSeekPalette(f) == PaletteFromTail(DirectSeekTail(f))

\* C13: for every file of at least 897 bytes that is read without an I/O
\* failure, the palette the chunk loop returns is the palette of the
\* direct-seek strategy.
C13_StreamingIsDirectSeek ==
    \A p \in OneCall :
        (PaletteReturned(p) /\ ~faults /\ getsize(file[p]) >= 897) =>
            palette[p] = DirectSeekPalette(file[p])

\* a file of 4097 bytes read in more than one chunk, with a palette found
C13_Witness ==
    \E p \in OneCall :
        /\ PaletteReturned(p)
        /\ ~faults
        /\ getsize(file[p]) > chunk_size
        /\ palette[p] # None
        /\ palette[p] = DirectSeekPalette(file[p])
        /\ palette[p][1][2] = <<PalByte(3, 4), PalByte(3, 5), PalByte(3, 6)>>

\* C14: read_pcx_256_palette fails closed.  Every return is either None or
\* the return after the end of the file with the palette of the whole tail;
\* so a return before the end of the file (getsize, open or a read of any
\* chunk has failed) is None, and it leaves no handle open.
C14_FailsClosed ==
    [][\A p \in OneCall :
         (pal_pc[p] # "done" /\ pal_pc'[p] = "done") =>
             /\ handles'[p] = 0
             /\ \/ palette'[p] = None
                \/ /\ pal_pc[p] = "loop"
                   /\ pal_pos[p] = getsize(file[p])
                   /\ palette'[p] = PaletteFromTail(tail[p])]_vars

\* the read of the second chunk has failed on a file that ends in a good
\* signature and palette: 769 bytes are in the tail and None is returned
C14_Witness ==
    \E p \in OneCall :
        /\ PaletteReturned(p)
        /\ faults
        /\ file[p].sig = PALETTE_SIGNATURE
        /\ pal_pos[p] = chunk_size
        /\ pal_pos[p] < getsize(file[p])
        /\ Len(tail[p]) = required_tail
        /\ palette[p] = None
        /\ handles[p] = 0

(***************************************************************************)
(* The result of read_pcx.                                                 *)
(***************************************************************************)
\* read_pcx has returned its result
ReadReturned(p) == rd_pc[p] = "done"

\* the fields of the header as they stand in the bytes of the file
FileBpp(f) == U8(f, 3)

FilePlanes(f) == U8(f, 65)

FileBytesPerLine(f) == LE16(f, 66)

FileWidth(f) == LE16(f, 8) - LE16(f, 4) + 1

FileHeight(f) == LE16(f, 10) - LE16(f, 6) + 1

\* C15: read_pcx returns an image only for a header of 8 bits per pixel and
\* 1 plane whose decoded bytes are at least bytesPerLine * height; for any
\* other valid header of a file that holds image data and is read without
\* an I/O failure, the image is None while raw_pixels is returned and the
\* palette entry is what read_pcx_256_palette returned.
C15_ImageOnlyForIndexed8 ==
    \A p \in OneCall :
        ReadReturned(p) =>
            /\ result[p].image # None =>
                  /\ FileBpp(file[p]) = 8
                  /\ FilePlanes(file[p]) = 1
                  /\ result[p].raw_pixels # None
                  /\ Len(result[p].raw_pixels[1]) >=
                        FileBytesPerLine(file[p]) * FileHeight(file[p])
            /\ (/\ ValidHeader(p)
                /\ ~faults
                /\ getsize(file[p]) > 897
                /\ ~(FileBpp(file[p]) = 8 /\ FilePlanes(file[p]) = 1)) =>
                  /\ result[p].image = None
                  /\ result[p].raw_pixels # None
                  /\ PaletteReturned(p)
                  /\ result[p].palette = palette[p]

\* a file of 3 planes of 8 bits with a good palette block, read with PIL
\* present: decoded bytes and palette are returned, the image is not
C15_Witness ==
    \E p \in OneCall :
        /\ ReadReturned(p)
        /\ Image
        /\ ValidHeader(p)
        /\ FileBpp(file[p]) = 8
        /\ FilePlanes(file[p]) = 3
        /\ result[p].image = None
        /\ result[p].raw_pixels # None
        /\ Len(result[p].raw_pixels[1]) >= FileBytesPerLine(file[p]) * FileHeight(file[p])
        /\ result[p].palette # None

\* the decoded bytes AA BB CC DD 00 00 EE FF 11 22 00 00
ExampleDecoded == <<170, 187, 204, 221, 0, 0, 238, 255, 17, 34, 0, 0>>

\* the file's header says 8 bits, 1 plane, 4 x 2 pixels in lines of 6 bytes
ExampleHeader(f) ==
    /\ FileBpp(f) = 8 /\ FilePlanes(f) = 1
    /\ FileWidth(f) = 4 /\ FileHeight(f) = 2 /\ FileBytesPerLine(f) = 6

\* C16: in an assembled image the pixel indices taken for row r are the first
\* width bytes of decoded[r*bytesPerLine, r*bytesPerLine + bytesPerLine), one
\* row after the other, and the rest of each line is dropped; the 4 x 2
\* image in lines of 6 bytes decoded to AA BB CC DD 00 00 EE FF 11 22 00 00
\* has the rows AA BB CC DD and EE FF 11 22.
C16_RowsAreFirstWidthBytes ==
    \A p \in OneCall :
        ReadReturned(p) =>
            /\ result[p].image # None =>
                  LET decoded == result[p].raw_pixels[1]
                      bytes_per_line == FileBytesPerLine(file[p])
                      taken == Min(FileWidth(file[p]), bytes_per_line)
                      pixels == result[p].image[1].pixels
                  IN  /\ result[p].image[1].size = <<FileWidth(file[p]), FileHeight(file[p])>>
                      /\ \A r \in 0..(FileHeight(file[p]) - 1) :
                            SubSeq(pixels, r * taken + 1, r * taken + taken)
                              = SubSeq(decoded, r * bytes_per_line + 1,
                                       r * bytes_per_line + taken)
            /\ (/\ Image
                /\ PaletteReturned(p)
                /\ ValidHeader(p)
                /\ ExampleHeader(file[p])
                /\ result[p].raw_pixels = Some(ExampleDecoded)) =>
                  /\ result[p].image # None
                  /\ result[p].image[1].pixels = <<170, 187, 204, 221, 238, 255, 17, 34>>

\* the image of the example has been returned
C16_Witness ==
    \E p \in OneCall :
        /\ ReadReturned(p)
        /\ result[p].image # None
        /\ ExampleHeader(file[p])
        /\ result[p].raw_pixels = Some(ExampleDecoded)
        /\ SubSeq(result[p].image[1].pixels, 1, 4) = <<170, 187, 204, 221>>
        /\ SubSeq(result[p].image[1].pixels, 5, 8) = <<238, 255, 17, 34>>

\* C17: for an 8-bit 1-plane file whose image data decodes to fewer than
\* bytesPerLine * height bytes, read_pcx (with PIL present and no I/O
\* failure) returns an image that holds the floor(len(decoded) /
\* bytesPerLine) complete rows.
C17_PartialImageOfCompleteRows ==
    \A p \in OneCall :
        (/\ ReadReturned(p)
         /\ PaletteReturned(p)
         /\ ValidHeader(p)
         /\ Image /\ ~faults
         /\ FileBpp(file[p]) = 8 /\ FilePlanes(file[p]) = 1
         /\ FileWidth(file[p]) >= 1 /\ FileHeight(file[p]) >= 1
         /\ FileBytesPerLine(file[p]) >= FileWidth(file[p])
         /\ Len(result[p].raw_pixels[1]) <
               FileBytesPerLine(file[p]) * FileHeight(file[p])) =>
            /\ result[p].image # None
            /\ LET decoded == result[p].raw_pixels[1]
                   bytes_per_line == FileBytesPerLine(file[p])
                   width == FileWidth(file[p])
                   pixels == result[p].image[1].pixels
               IN  \A r \in 0..((Len(decoded) \div bytes_per_line) - 1) :
                     SubSeq(pixels, r * width + 1, r * width + width)
                       = SubSeq(decoded, r * bytes_per_line + 1, r * bytes_per_line + width)

\* C18: every result read_pcx returns has a header; a header with an "Error"
\* entry comes with raw_pixels, palette and image all None; a palette comes
\* with raw_pixels; an image comes with raw_pixels and a header of 8 bits
\* per pixel and 1 plane.
C18_DegradationChain ==
    \A p \in OneCall :
        ReadReturned(p) =>
            /\ result[p].header # None
            /\ "Error" \in DOMAIN result[p].header[1] =>
                  /\ result[p].raw_pixels = None
                  /\ result[p].palette = None
                  /\ result[p].image = None
            /\ result[p].palette # None => result[p].raw_pixels # None
            /\ result[p].image # None =>
                  /\ result[p].raw_pixels # None
                  /\ result[p].header[1]["Bits/Pixel"] = 8
                  /\ result[p].header[1]["Planes"] = 1

\* a result with all four fields set
C18_Witness ==
    \E p \in OneCall :
        /\ ReadReturned(p)
        /\ result[p].header # None
        /\ result[p].raw_pixels # None
        /\ result[p].palette # None
        /\ result[p].image # None
        /\ result[p].header[1]["Bits/Pixel"] = 8

\* C19: for every file with a valid header and at least one byte after the
\* 128 bytes of the header, read without an I/O failure, read_pcx returns
\* raw_pixels that is not None, whether or not a palette is found and also
\* when the file has fewer than 897 bytes.
C19_RawPixelsWithoutPalette ==
    \A p \in OneCall :
        (ReadReturned(p) /\ ValidHeader(p) /\ ~faults /\ getsize(file[p]) > 128) =>
            result[p].raw_pixels # None

\* C20: for a file that can be opened and read, whatever its bytes, the three
\* functions never raise: no call ends in a raised state, read_pcx_header
\* returns a dictionary, read_pcx_256_palette
\* returns None or 256 triples, and read_pcx returns its result with a header.
C20_NeverRaises ==
    \A p \in OneCall :
        ~faults =>
            /\ rd_pc[p] # "raised" /\ hdr_pc[p] # "raised" /\ pal_pc[p] # "raised"
            /\ hdr_pc[p] = "done" =>
                  \/ "Error" \in DOMAIN header_data[p]
                  \/ ImageKeys \subseteq DOMAIN header_data[p]
            /\ PaletteReturned(p) =>
                  palette[p] = None \/ Len(palette[p][1]) = 256
            /\ ReadReturned(p) => result[p].header = Some(header_data[p])

\* a header with xmin = 5 and xmax = 0 (a width of -4) and PIL present:
\* Image.new has raised, and read_pcx has returned the result without image
C20_Witness ==
    \E p \in OneCall :
        /\ ReadReturned(p)
        /\ ~faults
        /\ Image
        /\ PaletteReturned(p)
        /\ ValidHeader(p)
        /\ FileBpp(file[p]) = 8 /\ FilePlanes(file[p]) = 1
        /\ FileWidth(file[p]) < 0
        /\ Len(result[p].raw_pixels[1]) >= FileBytesPerLine(file[p]) * FileHeight(file[p])
        /\ result[p].image = None
        /\ file[p].sig # PALETTE_SIGNATURE

(***************************************************************************)
(* File handles.                                                           *)
(***************************************************************************)
\* C21: every handle a function opens is closed when the function returns,
\* on each of its paths: a call never holds more than two handles (that of
\* read_pcx and that of the palette read inside it), it holds none once
\* read_pcx_header or read_pcx has returned, and only that of read_pcx once
\* the nested read_pcx_256_palette has returned.
C21_HandlesClosed ==
    \A p \in OneCall :
        /\ handles[p] \in 0..2
        /\ ReadReturned(p) => handles[p] = 0
        /\ (rd_pc[p] = "header" /\ hdr_pc[p] = "done") => handles[p] = 0
        /\ (rd_pc[p] = "palette" /\ PaletteReturned(p)) => handles[p] = 1

\* the palette read inside read_pcx is in its chunk loop: two handles
C21_Witness ==
    \E p \in OneCall :
        /\ rd_pc[p] = "palette"
        /\ pal_pc[p] = "loop"
        /\ pal_pos[p] > 0
        /\ handles[p] = 2

(***************************************************************************)
(* Calls that run at the same time.                                        *)
(***************************************************************************)
\* what read_pcx returns for the file f when it runs alone and every open
\* and read succeeds in full: its statements one after the other
AloneResult(f, pil) ==
    LET header == HeaderFromBytes(ReadAt(f, 0, PCX_HEADER_SIZE))
        file_size == getsize(f)
        size == file_size - PCX_HEADER_SIZE - PCX_TAIL_SIZE
        only_header == [header |-> Some(header), palette |-> None,
                        raw_pixels |-> None, image |-> None]
    IN  IF HeaderFailed(header) \/ size <= 0 THEN only_header
        ELSE LET decoded == pcx_rle_decode(ReadAt(f, PCX_HEADER_SIZE, size))
                 pal == PaletteFromTail(LastN(FileBytes(f), required_tail))
             IN  [header |-> Some(header), palette |-> pal,
                  raw_pixels |-> Some(decoded),
                  image |-> AssembleImage(header, decoded, pal, pil)]

\* no open or read has failed or come back short so far
AllReadsFull == ~faults /\ short_left = MaxShortReads

\* C22: when the steps of two read_pcx calls, on the same file or on two
\* files, interleave in any order, each call returns the result it returns
\* when it runs alone.
C22_CallsDoNotInterfere ==
    \A p \in TwoCalls :
        (ReadReturned(p) /\ AllReadsFull) => result[p] = AloneResult(file[p], Image)

\* both calls have returned, on two files, one with an image and a palette
\* and one with neither
C22_Witness ==
    /\ AllReadsFull
    /\ \A p \in TwoCalls : ReadReturned(p)
    /\ result[1].image # None /\ result[1].palette # None
    /\ result[2].raw_pixels # None /\ result[2].palette = None
    /\ result[1] = AloneResult(file[1], Image)
    /\ result[2] = AloneResult(file[2], Image)

(***************************************************************************)
(* The header of a file that has all of its 128 bytes.                     *)
(***************************************************************************)
\* C23: read_pcx_header never reports a failure to unpack, and whenever the
\* read returns the full 128 bytes the header it returns has no "Error"
\* entry, whatever the bytes are.
C23_FullHeaderUnpacks ==
    \A p \in OneCall :
        hdr_pc[p] = "done" =>
            /\ "Error" \in DOMAIN header_data[p] =>
                  header_data[p]["Error"] # "Failed to unpack header structure"
            /\ (AllReadsFull /\ getsize(file[p]) >= 128) =>
                  /\ "Error" \notin DOMAIN header_data[p]
                  /\ header_data[p]["Manufacturer"] = U8(file[p], 0)
                  /\ header_data[p]["Encoding"] = U8(file[p], 2)

\* a header whose manufacturer byte is 200 and whose encoding byte is 206
C23_Witness ==
    \E p \in OneCall :
        /\ hdr_pc[p] = "done"
        /\ AllReadsFull
        /\ getsize(file[p]) >= 128
        /\ "Error" \notin DOMAIN header_data[p]
        /\ header_data[p]["Manufacturer"] = 200
        /\ header_data[p]["Encoding"] = 206

(***************************************************************************)
(* read_pcx and the palette of the file.                                   *)
(***************************************************************************)
\* what read_pcx_256_palette returns for the file f when every read succeeds
LocatorPalette(f) ==
    IF TooShortForPalette(getsize(f)) THEN None
    ELSE PaletteFromTail(LastN(FileBytes(f), required_tail))

\* C24: for every file with a valid header for which read_pcx_256_palette
\* returns a palette, read_pcx (with no I/O failure) returns that palette in
\* its palette field, a file of exactly 128 + 769 bytes included.
C24_FacadeReturnsLocatorPalette ==
    \A p \in OneCall :
        (/\ ReadReturned(p)
         /\ ValidHeader(p)
         /\ ~faults
         /\ LocatorPalette(file[p]) # None) =>
            result[p].palette = LocatorPalette(file[p])

(***************************************************************************)
(* The image data read_pcx reads and decodes.                              *)
(***************************************************************************)
\* the bytes at the offsets [128, fileSize - 769) of the file
ImageRegion(f) == SubSeq(FileBytes(f), 129, getsize(f) - 769)

\* the loop of read_pcx is over and its chunks were decoded
DataDecoded(p) == rd_pc[p] \in {"palette", "done"} /\ result[p].raw_pixels # None

\* the read that skips the header returned its 128 bytes: the data reads
\* began at offset 128
DataReadFrom128(p) == rd_pos[p] - Len(Join(chunks[p])) = 128

\* C25: the bytes read_pcx joins and passes to pcx_rle_decode are the bytes
\* at [128, fileSize - 769) of the file, whatever the first of the last 769
\* bytes is and however the data reads are cut into chunks, when the data
\* reads begin after the 128 bytes of the header.
C25_DecodedRegion ==
    \A p \in OneCall :
        (DataDecoded(p) /\ DataReadFrom128(p)) =>
            /\ Join(chunks[p]) = ImageRegion(file[p])
            /\ result[p].raw_pixels = Some(pcx_rle_decode(ImageRegion(file[p])))

\* the 16 bytes of the example were read in two chunks, from a file whose
\* last 769 bytes do not begin with the signature
C25_Witness ==
    \E p \in OneCall :
        /\ DataDecoded(p)
        /\ DataReadFrom128(p)
        /\ Len(chunks[p]) = 2
        /\ Join(chunks[p]) = ExampleData
        /\ file[p].sig # PALETTE_SIGNATURE
        /\ result[p].raw_pixels = Some(ExampleDecoded)

\* the pixel_list the row loop of read_pcx builds for the call p
PixelList(p) ==
    PixelRows(result[p].raw_pixels[1], header_data[p]["Width"], header_data[p]["Height"],
              header_data[p]["Bytes/Line"], 0, 0)

\* C26: whenever read_pcx has assembled an image, the pixel list it built
\* has exactly width * height entries.
C26_PixelListIsWidthTimesHeight ==
    \A p \in OneCall :
        (ReadReturned(p) /\ result[p].image # None) =>
            Len(PixelList(p)) = header_data[p]["Width"] * header_data[p]["Height"]

\* C27: in the read loop of read_pcx, whatever lengths the reads return,
\* remaining stays within 0..image_data_size, the next request is for
\* min(8192, remaining) bytes and no chunk is longer than that, the chunks
\* collected hold image_data_size - remaining bytes, the loop has ended only
\* with remaining = 0 or at the end of the file, and the joined chunks are
\* the first bytes of the image-data region when the reads began at 128.
C27_ReadLoopInvariant ==
    \A p \in OneCall :
        rd_pc[p] \in {"loop", "decode"} =>
            LET compressed == Join(chunks[p])
            IN  /\ remaining[p] \in 0..image_data_size[p]
                /\ Len(compressed) = image_data_size[p] - remaining[p]
                /\ remaining[p] > 0 =>
                      /\ ToRead(remaining[p]) = Min(8192, remaining[p])
                      /\ ToRead(remaining[p]) >= 1
                /\ \A k \in 1..Len(chunks[p]) : Len(chunks[p][k]) \in 1..8192
                /\ rd_pc[p] = "decode" =>
                      remaining[p] = 0 \/ rd_pos[p] >= getsize(file[p])
                /\ DataReadFrom128(p) =>
                      compressed = SubSeq(ImageRegion(file[p]), 1, Len(compressed))

\* a full block of 8192 bytes, then a read of 1 byte: 7 bytes remain
C27_Witness ==
    \E p \in OneCall :
        /\ rd_pc[p] = "loop"
        /\ DataReadFrom128(p)
        /\ Len(chunks[p]) = 2
        /\ Len(chunks[p][1]) = 8192
        /\ Len(chunks[p][2]) = 1
        /\ remaining[p] = 7
        /\ image_data_size[p] = 8200

(***************************************************************************)
(* The end of pcx_rle_decode.                                              *)
(***************************************************************************)
\* the iterations the loop still runs from the locals (k, o)
RECURSIVE IterationsFrom(_, _, _)
IterationsFrom(d, k, o) ==
    IF k >= Len(d) THEN 0
    ELSE LET r == RleIter(d, k, o)
         IN  IF r.pc = "loop" THEN 1 + IterationsFrom(d, r.i, r.out) ELSE 1

\* C28: pcx_rle_decode terminates on every input.  The index stays within
\* 0..len(data), the output never holds more than 63 bytes per byte
\* consumed, and the loop has at most as many iterations left as bytes;
\* every iteration moves the index forward by 1 or 2; and the function
\* returns.
C28_DecodeTerminates ==
    /\ [](/\ i \in 0..Len(data)
          /\ Len(out) <= 63 * i
          /\ Len(out) <= 63 * Len(data)
          /\ rle_pc # "raised"
          /\ rle_pc = "loop" => IterationsFrom(data, i, out) <= Len(data) - i)
    /\ [][\/ i' \in {i + 1, i + 2}
          \/ i' = i /\ out' = out /\ i >= Len(data) /\ rle_pc' = "done"]_vars
    /\ <>[](rle_pc = "done")

\* two runs of 63 bytes decoded from 4 bytes: as many iterations and output
\* bytes as the indices allow
C28_Witness ==
    /\ rle_pc = "done"
    /\ data = <<255, 5, 255, 5>>
    /\ i = Len(data)
    /\ Len(out) = 126

(***************************************************************************)
(* The viewer: ImageApp.open_image and ImageApp.close_image.  A path is a  *)
(* sequence of characters; an image is known by the path it was opened     *)
(* from.  Each command is one callback of the Tk main loop.                *)
(***************************************************************************)
\* str.lower() on the characters the paths use
Lower(c) ==
    CASE c = "P" -> "p"
      [] c = "C" -> "c"
      [] c = "X" -> "x"
      [] OTHER -> c

LowerPath(path) == [k \in 1..Len(path) |-> Lower(path[k])]

\* s.endswith(suffix)
EndsWith(s, suffix) ==
    /\ Len(s) >= Len(suffix)
    /\ SubSeq(s, Len(s) - Len(suffix) + 1, Len(s)) = suffix

\* path.lower().endswith('.pcx')
IsPcxPath(path) == EndsWith(LowerPath(path), <<".", "p", "c", "x">>)

\* the paths the file dialog returns, besides '' when it is cancelled
ViewPaths ==
    {<<"a", ".", "p", "c", "x">>, <<"b", ".", "P", "C", "X">>, <<"c", ".", "p", "c", "x">>,
     <<"d", ".", "p", "n", "g">>, <<"e", ".", "j", "p", "g">>, <<"p", "c", "x">>}

\* the file at a path: a.pcx and b.PCX differ in header and palette, c.pcx
\* ends inside its header
FileAt(path) ==
    CASE path[1] = "a" -> MkFile(FieldHeader(8, 1, 0, 0, 3, 1, 6), <<5, 195, 7>>, 0, 12, 768, 3)
      [] path[1] = "b" -> MkFile(FieldHeader(8, 1, 0, 0, 3, 1, 2), <<5, 195, 7>>, 0, 12, 768, 1)
      [] path[1] = "c" -> MkFile(SubSeq(PatternHeader(10), 1, 127), <<>>, 0, -1, 0, 0)
      [] OTHER -> MkFile(PatternHeader(0), <<5>>, 0, -1, 0, 0)

\* im0.format, which may be None
ViewFormats == {None, Some("PCX"), Some("JPEG")}

\* the tag map of im0.getexif(), kept only for a JPEG with EXIF data
ExifChoices(format) == IF format = Some("JPEG") THEN {None, Some("tagmap")} ELSE {None}

\* ImageState(): the fields the two commands set
NewImageState ==
    [img |-> None, file_path |-> None, file_format |-> None, jpeg_exif |-> None,
     pcx_header |-> None, pcx_palette |-> None]

ResetFileOnly(st) ==
    [st EXCEPT !.file_path = None, !.file_format = None, !.jpeg_exif = None]
\* Reset file / PCX state before loading a new image
ResetFileState(st) ==
    [st EXCEPT !.pcx_header = None, !.pcx_palette = None,
               !.file_path = None, !.file_format = None, !.jpeg_exif = None]

\* the state after im0 = Image.open(path) and the statements down to convert
AfterImageOpen(st, path, format, exif) ==
    [ResetFileState(st) EXCEPT !.file_path = Some(path), !.file_format = format,
                               !.jpeg_exif = exif]

\* read_pcx_header(path) and read_pcx_256_palette(path), stored when the
\* path ends in .pcx
AfterPcxRead(st, path) ==
    IF IsPcxPath(path)
    THEN [st EXCEPT !.pcx_header = Some(HeaderFromBytes(ReadAt(FileAt(path), 0, PCX_HEADER_SIZE))),
                    !.pcx_palette = LocatorPalette(FileAt(path))]
    ELSE st

\* the file dialog is cancelled: `if not path: return`
OpenCancelled ==
    /\ img_state' = img_state
    /\ last_pick' = last_pick

\* Image.open(path) raises: the error box is shown, return
OpenFails ==
    \E path \in ViewPaths :
        /\ img_state' = ResetFileState(img_state)
        /\ last_pick' = Some([path |-> path, loaded |-> FALSE])

\* Image.open(path) succeeds and im0.convert("RGB") raises: return
ConvertFails ==
    \E path \in ViewPaths, format \in ViewFormats :
        \E exif \in ExifChoices(format) :
            /\ img_state' = AfterImageOpen(img_state, path, format, exif)
            /\ last_pick' = Some([path |-> path, loaded |-> FALSE])

\* the image is opened and converted: the PCX data is read for a .pcx path
\* and self.img_state.img = img
OpenLoads ==
    \E path \in ViewPaths, format \in ViewFormats :
        \E exif \in ExifChoices(format) :
            /\ img_state' = [AfterPcxRead(AfterImageOpen(img_state, path, format, exif), path)
                               EXCEPT !.img = Some(path)]
            /\ last_pick' = Some([path |-> path, loaded |-> TRUE])

\* close_image: the image and all metadata are cleared
CloseImage ==
    /\ img_state' = [ResetFileState(img_state) EXCEPT !.img = None]
    /\ UNCHANGED last_pick

\* ImageApp.__init__: self.img_state = ImageState()
ViewInit ==
    /\ RleIdle
    /\ NoCalls
    /\ img_state = NewImageState
    /\ last_pick = None

ViewNext ==
    \/ OpenCancelled /\ UNCHANGED <<rleVars, file, faults, Image, short_left, handles, hdrVars, palVars, rdVars>>
    \/ OpenFails /\ UNCHANGED <<rleVars, file, faults, Image, short_left, handles, hdrVars, palVars, rdVars>>
    \/ ConvertFails /\ UNCHANGED <<rleVars, file, faults, Image, short_left, handles, hdrVars, palVars, rdVars>>
    \/ OpenLoads /\ UNCHANGED <<rleVars, file, faults, Image, short_left, handles, hdrVars, palVars, rdVars>>
    \/ CloseImage /\ UNCHANGED <<rleVars, file, faults, Image, short_left, handles, hdrVars, palVars, rdVars>>

SpecView == ViewInit /\ [][ViewNext]_vars

\* C29: img_state.pcx_header or img_state.pcx_palette is set only if the last
\* open_image that chose a path chose one ending in .pcx (in any letter
\* case) and opened and converted its image; the header and the palette
\* are then those of that file, never those of a file loaded before.
C29_PcxStateIsOfLastOpen ==
    (img_state.pcx_header # None \/ img_state.pcx_palette # None) =>
        /\ last_pick # None
        /\ last_pick[1].loaded
        /\ IsPcxPath(last_pick[1].path)
        /\ img_state.pcx_header =
              Some(HeaderFromBytes(ReadAt(FileAt(last_pick[1].path), 0, PCX_HEADER_SIZE)))
        /\ img_state.pcx_palette = LocatorPalette(FileAt(last_pick[1].path))

\* a.pcx was loaded with its header and palette, then the open of b.PCX
\* failed: the image of a.pcx is still held, header and palette are cleared
C29_Witness ==
    /\ img_state.img = Some(<<"a", ".", "p", "c", "x">>)
    /\ last_pick = Some([path |-> <<"b", ".", "P", "C", "X">>, loaded |-> FALSE])
    /\ img_state.pcx_header = None
    /\ img_state.pcx_palette = None
    /\ img_state.file_path = None

\* C30: img_state.file_path and img_state.file_format are set only when they
\* describe the image held in img_state.img: the path is the one the held
\* image was opened from, and there is a held image.
C30_FileInfoDescribesHeldImage ==
    (img_state.file_path # None \/ img_state.file_format # None) =>
        /\ img_state.img # None
        /\ img_state.img = img_state.file_path
====
